---- MODULE Spec2Model ----
(***************************************************************************)
(* Model of the folder backup / restore pipelines:                         *)
(*   backup_folder.py   BackupCreator, ZipArchiveManager, ArchiveStats     *)
(*   restore_folder.py  RestoreExtractor, ArchiveOpener, RestoreStats      *)
(*                                                                         *)
(* A path is a sequence of components, a name stored in the archive is a   *)
(* sequence of tokens in which "/" separates the components, file content  *)
(* is a sequence of bytes.  The file system, the ZIP container, the        *)
(* optional AES backend and the user's interrupt are the environment: an   *)
(* I/O failure or a KeyboardInterrupt is a nondeterministic choice at the  *)
(* step where the code can observe it.                                     *)
(***************************************************************************)
EXTENDS Integers, Sequences, FiniteSets, TLC

\* ------------------------------------------------------------------ bounds
\* Most files a source tree holds.
MaxFiles == 2
\* Most entries of an archive that was not produced by this model's backup.
MaxEntries == 2
\* Most direct calls of calculate_total_size before create_archive.
MaxScans == 1

\* --------------------------------------------------------- program constants
PROGRESS_UPDATE_INTERVAL == 10
MAX_COMPRESSION_LEVEL == 9
CHUNK_SIZE == 8388608

\* ------------------------------------------------------------- value spaces
SourceDir == <<"src">>
TargetDir == <<"tgt">>

\* Path.rglob('*') of the source tree, in traversal order: the files and
\* directories the tree can hold, relative to the source root.
Listing ==
    << [rel |-> <<"a">>, dir |-> FALSE],
       [rel |-> <<"d">>, dir |-> TRUE],
       [rel |-> <<"d", "a">>, dir |-> FALSE],
       [rel |-> <<"d", "b">>, dir |-> FALSE] >>

RelFiles == {Listing[i].rel : i \in {j \in 1..Len(Listing) : ~Listing[j].dir}}

Contents == {<<>>, <<1>>, <<2>>}

NoPassword == "none"
Keys == {"k1", "k2"}

\* Source trees: the files present, each with its content.
Trees ==
    UNION {[S -> Contents] : S \in {T \in SUBSET RelFiles : Cardinality(T) <= MaxFiles}}

\* ------------------------------------------------------------ path functions
IsPrefix(p, q) == Len(p) <= Len(q) /\ SubSeq(q, 1, Len(p)) = p

\* Path.relative_to(base): the components after base.
relative_to(path, base) == SubSeq(path, Len(base) + 1, Len(path))

\* str(path) of a relative path: the components joined by "/".
RECURSIVE PathStr(_)
PathStr(p) ==
    IF Len(p) = 0 THEN <<>>
    ELSE IF Len(p) = 1 THEN <<p[1]>>
    ELSE <<p[1], "/">> \o PathStr(Tail(p))

\* The components of a name: the tokens between "/" separators.
RECURSIVE NameParts(_)
NameParts(s) ==
    IF Len(s) = 0 THEN <<>>
    ELSE IF s[1] = "/" THEN NameParts(Tail(s))
    ELSE <<s[1]>> \o NameParts(Tail(s))

IsAbsoluteName(s) == Len(s) > 0 /\ s[1] = "/"

\* pathlib's base / name: an absolute name replaces base, a relative one
\* is appended component by component (".." is kept, not resolved).
JoinPath(base, name) ==
    IF IsAbsoluteName(name) THEN <<"/">> \o NameParts(name)
    ELSE base \o NameParts(name)

\* Free space the file system may report when `need` bytes are asked for:
\* every amount short of the need, the need itself and more than the need.
FreeSpaces(need) == 0..(need + 1)

\* Value of free_space while no check_disk_space is running.
NoFrame == -1

RECURSIVE SumSeq(_)
SumSeq(s) == IF Len(s) = 0 THEN 0 ELSE s[1] + SumSeq(Tail(s))

\* ------------------------------------------------------------------- state
VARIABLES
    \* environment
    src_kind,       \* what is at source_dir: "dir", "file" or "missing"
    src,            \* the source tree: relative file path -> content
    has_pyzipper,   \* the optional AES backend can be imported
    archive,        \* the file at backup_path / archive_path
    open_handles,   \* number of archive handles currently open
    failed,         \* source files on which the environment failed an I/O call
    free_space,     \* the local free_space of the check_disk_space that is running
    \* BackupCreator
    b_pc,           \* position inside BackupCreator
    b_caller,       \* who runs the scan: "direct" or "create"
    b_password,     \* BackupCreator.password
    use_password,   \* archive_manager.use_password
    stats,          \* BackupCreator.stats (ArchiveStats)
    file_sizes,     \* BackupCreator._file_sizes in insertion order
    scan_i,         \* position of the rglob iterator
    scans,          \* completed direct calls of calculate_total_size
    w_i,            \* position of the write loop in _file_sizes
    w_data,         \* bytes read for the file being added
    b_exc,          \* exception create_archive raised ("none" if none)
    b_calls,        \* processed_files at each progress callback invocation
    b_ki,           \* where a KeyboardInterrupt struck: "none", "prep", "write"
    b_log           \* outcome of each call of _add_file_to_archive, in order

envvars == <<src_kind, src, has_pyzipper, archive, open_handles, failed>>
bvars == <<b_pc, b_caller, b_password, use_password, stats, file_sizes, scan_i,
           scans, w_i, w_data, b_exc, b_calls, b_ki, b_log>>

VARIABLES
    \* a FileProcessor method or an ArchiveStats property called on its own
    u_chunk,        \* FileProcessor.chunk_size of the processor called
    u_file,         \* content of the file the processor is called on
    u_ret,          \* the last call: what was called, on what, what it returned
    \* main() of backup_folder.py or of restore_folder.py
    m_prog,         \* the program run: "backup", "restore" ("none": no main runs)
    m_pc,           \* position inside main; after its end, the place it ended at
    m_exit,         \* exit status of the process (NoExit while it runs)
    m_prompts,      \* password prompts shown by restore_folder.get_password
    m_password      \* main's local `password`

uvars == <<u_chunk, u_file, u_ret>>
mvars == <<m_prog, m_pc, m_exit, m_prompts, m_password>>

\* ------------------------------------------------------------- the archive
NoArchive == [exists |-> FALSE, entries |-> <<>>, finalized |-> FALSE]

\* Bytes of the archive file on disk: every entry has a local header and its
\* data, and closing the container appends the central directory (one record
\* per entry and the end record).
ArchiveFileSize(a) ==
    IF ~a.exists THEN 0
    ELSE SumSeq([i \in 1..Len(a.entries) |-> 1 + Len(a.entries[i].data)])
         + (IF a.finalized THEN 1 + Len(a.entries) ELSE 0)

\* ------------------------------------------------------------ ArchiveStats
InitStats ==
    [total_files |-> 0, processed_files |-> 0, total_size |-> 0,
     processed_size |-> 0, archive_size |-> 0, skipped_files |-> 0]

\* Variant of compression_ratio: the share the archive takes of the input.
compression_ratio_Share(s) ==
    IF s.total_size = 0 THEN [num |-> 0, den |-> 1]
    ELSE [num |-> s.archive_size * 100, den |-> s.total_size]

\* ArchiveStats.compression_ratio (lines 75-84), a float in the code, as the
\* exact fraction num / den.
compression_ratio(s) ==
    IF s.total_size = 0 THEN [num |-> 0, den |-> 1]
    ELSE [num |-> (s.total_size - s.archive_size) * 100, den |-> s.total_size]

\* ArchiveStats.progress_percent, as a whole number of percent (the float
\* quotient rounded down); it is 100 exactly when the float is 100.0.
progress_percent(s) ==
    IF s.total_size = 0 THEN 0
    ELSE (s.processed_size * 100) \div s.total_size

\* ------------------------------------------------------- ZipArchiveManager
\* Variant of ManagerUsePassword: the flag stays as it was asked for.
ManagerUsePassword_NoDowngrade(password, pyzipper) == password # NoPassword

\* ZipArchiveManager._get_zip_class: use_password after construction.
ManagerUsePassword(password, pyzipper) == password # NoPassword /\ pyzipper

\* ZipArchiveManager._get_zip_class (lines 115-129): the class chosen when
\* BackupCreator asks for a password (use_password = password is not None).
ZipClass(password, pyzipper) ==
    IF password = NoPassword THEN "std"
    ELSE IF pyzipper THEN "aes"
    ELSE "std"

\* ZipArchiveManager.create_archive_kwargs (lines 139-157) for the value
\* use_password has when it is called.
create_archive_kwargs(up, pyzipper) ==
    IF up /\ pyzipper
    THEN [compression |-> "ZIP_DEFLATED", compresslevel |-> MAX_COMPRESSION_LEVEL,
          encryption |-> "WZ_AES"]
    ELSE [compression |-> "ZIP_DEFLATED", compresslevel |-> MAX_COMPRESSION_LEVEL]

\* ZipArchiveManager.create_archive_kwargs / create_archive: how an entry
\* written through the manager is stored.
EntryEncryption(up, password) ==
    IF up /\ password # NoPassword THEN "aes" ELSE "none"

\* ----------------------------------------------------------- FileProcessor
\* FileProcessor.read_file_direct: the whole content in one read.
read_file_direct(content) == content

\* Variant of read_file_chunked: the loop stops after the first chunk.
read_file_chunked_FirstChunk(content, chunk_size) ==
    IF Len(content) <= chunk_size THEN content
    ELSE SubSeq(content, 1, chunk_size)

\* FileProcessor.read_file_chunked: reads of chunk_size bytes appended to a
\* buffer until a read returns nothing.
RECURSIVE read_file_chunked(_, _)
read_file_chunked(content, chunk_size) ==
    IF Len(content) = 0 THEN <<>>
    ELSE IF Len(content) <= chunk_size THEN content
    ELSE SubSeq(content, 1, chunk_size)
         \o read_file_chunked(SubSeq(content, chunk_size + 1, Len(content)), chunk_size)

\* Variant of ReadMethod: a file of exactly CHUNK_SIZE bytes is read in chunks.
ReadMethod_AtThreshold(file_size) ==
    IF file_size >= CHUNK_SIZE THEN "read_file_chunked" ELSE "read_file_direct"

\* _add_file_to_archive, lines 365-368: the read path is chosen by the size.
ReadMethod(file_size) ==
    IF file_size > CHUNK_SIZE THEN "read_file_chunked" ELSE "read_file_direct"

\* _add_file_to_archive, lines 365-368, with the FileProcessor the
\* BackupCreator made (line 254: the default chunk size).
ReadFile(content, file_size) ==
    IF ReadMethod(file_size) = "read_file_chunked"
    THEN read_file_chunked(content, CHUNK_SIZE)
    ELSE read_file_direct(content)

\* ----------------------------------------------------------- BackupCreator
\* What source_dir.rglob('*') yields for the tree on disk.
Rglob ==
    IF src_kind # "dir" THEN <<>>
    ELSE SelectSeq(Listing,
                   LAMBDA e : IF e.dir THEN \E f \in DOMAIN src : IsPrefix(e.rel, f)
                              ELSE e.rel \in DOMAIN src)

CacheIndex(cache, path) ==
    IF \E i \in 1..Len(cache) : cache[i].path = path
    THEN CHOOSE i \in 1..Len(cache) : cache[i].path = path
    ELSE 0

\* self._file_sizes[file_path] = file_size: a dict keeps the place of a key
\* it already holds.
CachePut(cache, path, size) ==
    IF CacheIndex(cache, path) = 0 THEN Append(cache, [path |-> path, size |-> size])
    ELSE [cache EXCEPT ![CacheIndex(cache, path)].size = size]

\* Variant of ScanCount: total_size is assigned instead of accumulated.
ScanCount_Assign(s, size) ==
    [s EXCEPT !.total_size = size, !.total_files = @ + 1]

\* Lines 294-298 of calculate_total_size for one file whose stat succeeded.
ScanCount(s, size) ==
    [s EXCEPT !.total_size = @ + size, !.total_files = @ + 1]

\* The progress callback is handed the stats; the model records the
\* processed_files it sees.
Callback(calls, s) == Append(calls, s.processed_files)

\* Lines 421-424: after _add_file_to_archive returns, the loop reports the
\* progress when processed_files is a multiple of the interval.
LoopCallback(calls, s) ==
    IF s.processed_files % PROGRESS_UPDATE_INTERVAL = 0 THEN Callback(calls, s)
    ELSE calls

\* The write loop moves on to the next planned file or leaves the loop.
NextFilePc(i) == IF i + 1 > Len(file_sizes) THEN "final" ELSE "w_read"

\* check_disk_space, lines 326-330: int(total_size * 0.5 * 1.1).
EstimatedSize(s) == (s.total_size * 11) \div 20

InPreparation == b_pc \in {"scan", "space", "space_cmp", "open"} /\ b_caller = "create"
InDirectScan == b_pc = "scan" /\ b_caller = "direct"
InWriteLoop == b_pc \in {"w_read", "w_write", "w_count", "w_size"}
InWithBlock == InWriteLoop \/ b_pc = "final"
BackupEnded == b_pc \in {"done", "aborted"}

VARIABLES
    \* RestoreExtractor
    r_pc,           \* position inside RestoreExtractor.extract_archive
    r_password,     \* RestoreExtractor.password
    rstats,         \* RestoreExtractor.stats (RestoreStats)
    r_cls,          \* class of the archive object extraction reads: "std", "aes"
    r_i,            \* position of the extraction loop in file_list
    r_exc,          \* exception extract_archive raised ("none" if none)
    r_calls,        \* extracted_files at each progress callback invocation
    r_failed,       \* positions of the entries on which the environment failed
    r_ki,           \* where a KeyboardInterrupt struck: "none", "prep", "extract"
    \* environment of the restore
    target,         \* files on disk written by the restore: path -> content
    target_exists   \* target_dir exists

rvars == <<r_pc, r_password, rstats, r_cls, r_i, r_exc, r_calls, r_failed, r_ki, target,
           target_exists>>
vars == <<envvars, bvars, rvars, free_space, uvars, mvars>>

\* ------------------------------------------------- BackupCreator operations
\* A direct call of calculate_total_size (lines 283-286), as the tests make
\* before create_archive.
CalculateTotalSizeCall ==
    /\ b_pc = "idle"
    /\ scans < MaxScans
    /\ IF src_kind = "missing"
       THEN /\ scans' = scans + 1
            /\ UNCHANGED <<b_pc, b_caller, scan_i>>
       ELSE /\ b_pc' = "scan"
            /\ b_caller' = "direct"
            /\ scan_i' = 1
            /\ UNCHANGED scans
    /\ UNCHANGED <<b_password, use_password, stats, file_sizes, w_i, w_data, b_exc, b_calls>>
    /\ UNCHANGED <<envvars, rvars>>
    /\ UNCHANGED <<b_ki, b_log>>
    /\ UNCHANGED free_space
    /\ UNCHANGED <<uvars, mvars>>

\* Variant of ValidateSource: whether the source is a directory is not looked at.
ValidateSource_NoTypeCheck ==
    /\ b_pc = "idle"
    /\ b_caller' = "create"
    /\ scan_i' = 1
    /\ IF src_kind = "missing"
       THEN b_pc' = "aborted" /\ b_exc' = "FileNotFoundError"
       ELSE b_pc' = "scan" /\ UNCHANGED b_exc
    /\ UNCHANGED <<b_password, use_password, stats, file_sizes, scans, w_i, w_data, b_calls>>
    /\ UNCHANGED <<envvars, rvars>>
    /\ UNCHANGED <<b_ki, b_log>>
    /\ UNCHANGED free_space
    /\ UNCHANGED <<uvars, mvars>>

\* create_archive up to the end of validate_source (lines 393-395, 257-272).
ValidateSource ==
    /\ b_pc = "idle"
    /\ b_caller' = "create"
    /\ scan_i' = 1
    /\ IF src_kind = "missing"
       THEN b_pc' = "aborted" /\ b_exc' = "FileNotFoundError"
       ELSE IF src_kind = "file"
       THEN b_pc' = "aborted" /\ b_exc' = "ValueError"
       ELSE b_pc' = "scan" /\ UNCHANGED b_exc
    /\ UNCHANGED <<b_password, use_password, stats, file_sizes, scans, w_i, w_data, b_calls>>
    /\ UNCHANGED <<envvars, rvars>>
    /\ UNCHANGED <<b_ki, b_log>>
    /\ UNCHANGED free_space
    /\ UNCHANGED <<uvars, mvars>>

\* One turn of the loop of calculate_total_size (lines 289-307): directories
\* are passed over, a file whose stat fails is left out of the plan.
ScanStep ==
    /\ b_pc = "scan"
    /\ scan_i <= Len(Rglob)
    /\ LET e == Rglob[scan_i]
           path == SourceDir \o e.rel
           size == Len(src[e.rel])
       IN  \/ /\ e.dir
              /\ UNCHANGED <<stats, file_sizes, failed>>
           \/ /\ ~e.dir
              /\ file_sizes' = CachePut(file_sizes, path, size)
              /\ stats' = ScanCount(stats, size)
              /\ UNCHANGED failed
           \/ /\ ~e.dir
              /\ failed' = failed \cup {e.rel}
              /\ UNCHANGED <<stats, file_sizes>>
    /\ scan_i' = scan_i + 1
    /\ UNCHANGED <<b_pc, b_caller, b_password, use_password, scans, w_i, w_data, b_exc, b_calls>>
    /\ UNCHANGED <<src_kind, src, has_pyzipper, archive, open_handles>>
    /\ UNCHANGED rvars
    /\ UNCHANGED <<b_ki, b_log>>
    /\ UNCHANGED free_space
    /\ UNCHANGED <<uvars, mvars>>

\* calculate_total_size returns: to the test that called it, or to
\* create_archive, which goes on to check_disk_space.
ScanReturn ==
    /\ b_pc = "scan"
    /\ scan_i > Len(Rglob)
    /\ IF b_caller = "direct"
       THEN b_pc' = "idle" /\ scans' = scans + 1
       ELSE b_pc' = "space" /\ UNCHANGED scans
    /\ UNCHANGED <<b_caller, b_password, use_password, stats, file_sizes, scan_i, w_i,
                   w_data, b_exc, b_calls>>
    /\ UNCHANGED <<envvars, rvars>>
    /\ UNCHANGED <<b_ki, b_log>>
    /\ UNCHANGED free_space
    /\ UNCHANGED <<uvars, mvars>>

\* check_disk_space, lines 319-325: the parent of backup_path exists and the
\* file system reports its free space.
BackupDiskUsage ==
    /\ b_pc = "space"
    /\ \E free \in FreeSpaces(EstimatedSize(stats)) : free_space' = free
    /\ b_pc' = "space_cmp"
    /\ UNCHANGED <<b_caller, b_password, use_password, stats, file_sizes, scan_i, scans,
                   w_i, w_data, b_exc, b_calls>>
    /\ UNCHANGED <<envvars, rvars>>
    /\ UNCHANGED <<b_ki, b_log>>
    /\ UNCHANGED <<uvars, mvars>>

\* Variant of BackupSpaceVerdict: the estimate is taken without the expected
\* compression.
BackupSpaceVerdict_NoCompression(s, free) ==
    IF free < (s.total_size * 11) \div 10 THEN "OSError" ELSE "none"

\* check_disk_space, lines 326-337: what it raises ("none" if it returns).
BackupSpaceVerdict(s, free) ==
    IF free < EstimatedSize(s) THEN "OSError" ELSE "none"

\* check_disk_space, lines 332-337: the comparison.  The OSError keeps the
\* free space in its message; a return drops the local.
BackupCheckDiskSpace ==
    /\ b_pc = "space_cmp"
    /\ IF BackupSpaceVerdict(stats, free_space) # "none"
       THEN /\ b_pc' = "aborted"
            /\ b_exc' = BackupSpaceVerdict(stats, free_space)
            /\ UNCHANGED free_space
       ELSE /\ b_pc' = "open"
            /\ free_space' = NoFrame
            /\ UNCHANGED b_exc
    /\ UNCHANGED <<b_caller, b_password, use_password, stats, file_sizes, scan_i, scans,
                   w_i, w_data, b_calls>>
    /\ UNCHANGED <<envvars, rvars>>
    /\ UNCHANGED <<b_ki, b_log>>
    /\ UNCHANGED <<uvars, mvars>>

\* Lines 405-410: the archive is opened for writing, which creates (or
\* truncates) the file at backup_path, and the progress is reported once.
OpenForWrite ==
    /\ b_pc = "open"
    /\ archive' = [exists |-> TRUE, entries |-> <<>>, finalized |-> FALSE]
    /\ open_handles' = open_handles + 1
    /\ b_calls' = Callback(b_calls, stats)
    /\ w_i' = 1
    /\ b_pc' = IF Len(file_sizes) = 0 THEN "final" ELSE "w_read"
    /\ UNCHANGED <<b_caller, b_password, use_password, stats, file_sizes, scan_i, scans,
                   w_data, b_exc>>
    /\ UNCHANGED <<src_kind, src, has_pyzipper, failed>>
    /\ UNCHANGED rvars
    /\ UNCHANGED <<b_ki, b_log>>
    /\ UNCHANGED free_space
    /\ UNCHANGED <<uvars, mvars>>

\* Variant of SkipFile: the file was counted as processed before the failure.
SkipFile_DoubleCount ==
    /\ stats' = [stats EXCEPT !.skipped_files = @ + 1, !.processed_files = @ + 1]
    /\ b_calls' = LoopCallback(b_calls, stats')
    /\ failed' = failed \cup {relative_to(file_sizes[w_i].path, SourceDir)}
    /\ w_i' = w_i + 1
    /\ b_pc' = NextFilePc(w_i)
    /\ w_data' = <<>>
    /\ b_log' = Append(b_log, [rel |-> relative_to(file_sizes[w_i].path, SourceDir),
                               added |-> FALSE, size |-> 0])

\* Variant of SkipFile: the failure of one file ends the loop.
SkipFile_Abort ==
    /\ stats' = [stats EXCEPT !.skipped_files = @ + 1]
    /\ b_calls' = b_calls
    /\ failed' = failed \cup {relative_to(file_sizes[w_i].path, SourceDir)}
    /\ w_i' = w_i
    /\ b_pc' = "final"
    /\ w_data' = <<>>
    /\ b_log' = Append(b_log, [rel |-> relative_to(file_sizes[w_i].path, SourceDir),
                               added |-> FALSE, size |-> 0])

\* _add_file_to_archive returned False (lines 381-383) and the loop goes on
\* (lines 421-424).
SkipFile ==
    /\ stats' = [stats EXCEPT !.skipped_files = @ + 1]
    /\ b_calls' = LoopCallback(b_calls, stats')
    /\ failed' = failed \cup {relative_to(file_sizes[w_i].path, SourceDir)}
    /\ w_i' = w_i + 1
    /\ b_pc' = NextFilePc(w_i)
    /\ w_data' = <<>>
    /\ b_log' = Append(b_log, [rel |-> relative_to(file_sizes[w_i].path, SourceDir),
                               added |-> FALSE, size |-> 0])

\* _add_file_to_archive, lines 356-368: the cached size and the read.
AddFileRead ==
    /\ b_pc = "w_read"
    /\ LET f == file_sizes[w_i]
           rel == relative_to(f.path, SourceDir)
       IN  \/ /\ w_data' = ReadFile(src[rel], f.size)
              /\ b_pc' = "w_write"
              /\ UNCHANGED <<stats, b_calls, failed, w_i, b_log>>
           \/ SkipFile
    /\ UNCHANGED <<b_caller, b_password, use_password, file_sizes, scan_i, scans, b_exc>>
    /\ UNCHANGED <<src_kind, src, has_pyzipper, archive, open_handles>>
    /\ UNCHANGED rvars
    /\ UNCHANGED b_ki
    /\ UNCHANGED free_space
    /\ UNCHANGED <<uvars, mvars>>

\* Variant of WrittenEntry: the entry is named by the file's name alone.
WrittenEntry_Basename(path, data) ==
    [name |-> <<path[Len(path)]>>,
     data |-> data,
     is_dir |-> FALSE,
     enc |-> EntryEncryption(use_password, b_password),
     key |-> IF EntryEncryption(use_password, b_password) = "none" THEN NoPassword
             ELSE b_password,
     corrupt |-> FALSE]

\* The entry archive.writestr(arcname, file_data) stores (lines 414, 370-375).
WrittenEntry(path, data) ==
    [name |-> PathStr(relative_to(path, SourceDir)),
     data |-> data,
     is_dir |-> FALSE,
     enc |-> EntryEncryption(use_password, b_password),
     key |-> IF EntryEncryption(use_password, b_password) = "none" THEN NoPassword
             ELSE b_password,
     corrupt |-> FALSE]

\* _add_file_to_archive, lines 370-375: archive.writestr.
AddFileWrite ==
    /\ b_pc = "w_write"
    /\ \/ /\ archive' = [archive EXCEPT
                            !.entries = Append(@, WrittenEntry(file_sizes[w_i].path, w_data))]
          /\ b_pc' = "w_count"
          /\ b_log' = Append(b_log, [rel |-> relative_to(file_sizes[w_i].path, SourceDir),
                                     added |-> TRUE, size |-> Len(w_data)])
          /\ UNCHANGED <<stats, b_calls, failed, w_i, w_data>>
       \/ SkipFile /\ UNCHANGED archive
    /\ UNCHANGED <<b_caller, b_password, use_password, file_sizes, scan_i, scans, b_exc>>
    /\ UNCHANGED <<src_kind, src, has_pyzipper, open_handles>>
    /\ UNCHANGED rvars
    /\ UNCHANGED b_ki
    /\ UNCHANGED free_space
    /\ UNCHANGED <<uvars, mvars>>

\* _add_file_to_archive, line 377.
AddFileCount ==
    /\ b_pc = "w_count"
    /\ stats' = [stats EXCEPT !.processed_files = @ + 1]
    /\ b_pc' = "w_size"
    /\ UNCHANGED <<b_caller, b_password, use_password, file_sizes, scan_i, scans, w_i,
                   w_data, b_exc, b_calls>>
    /\ UNCHANGED <<envvars, rvars>>
    /\ UNCHANGED <<b_ki, b_log>>
    /\ UNCHANGED free_space
    /\ UNCHANGED <<uvars, mvars>>

\* _add_file_to_archive, lines 378-379, and the loop's report (lines 421-424).
AddFileSize ==
    /\ b_pc = "w_size"
    /\ stats' = [stats EXCEPT !.processed_size = @ + file_sizes[w_i].size]
    /\ b_calls' = LoopCallback(b_calls, stats')
    /\ w_i' = w_i + 1
    /\ b_pc' = NextFilePc(w_i)
    /\ w_data' = <<>>
    /\ UNCHANGED <<b_caller, b_password, use_password, file_sizes, scan_i, scans, b_exc>>
    /\ UNCHANGED <<envvars, rvars>>
    /\ UNCHANGED <<b_ki, b_log>>
    /\ UNCHANGED free_space
    /\ UNCHANGED <<uvars, mvars>>

\* Lines 444-452: the last report and the stat of the archive file, still
\* inside the with block.
FinishWriting ==
    /\ b_pc = "final"
    /\ b_calls' = IF stats.processed_files % PROGRESS_UPDATE_INTERVAL # 0
                  THEN Callback(b_calls, stats) ELSE b_calls
    /\ stats' = [stats EXCEPT !.archive_size = ArchiveFileSize(archive)]
    /\ b_pc' = "close"
    /\ UNCHANGED <<b_caller, b_password, use_password, file_sizes, scan_i, scans, w_i,
                   w_data, b_exc>>
    /\ UNCHANGED <<envvars, rvars>>
    /\ UNCHANGED <<b_ki, b_log>>
    /\ UNCHANGED free_space
    /\ UNCHANGED <<uvars, mvars>>

\* The with block is left normally (line 452): ZipFile.close writes the
\* central directory and releases the file; a failure of that write is an
\* OSError create_archive does not catch.
CloseArchive ==
    /\ b_pc = "close"
    /\ open_handles' = open_handles - 1
    /\ \/ /\ archive' = [archive EXCEPT !.finalized = TRUE]
          /\ b_pc' = "done"
          /\ UNCHANGED b_exc
       \/ /\ b_pc' = "aborted"
          /\ b_exc' = "OSError"
          /\ UNCHANGED archive
    /\ UNCHANGED <<b_caller, b_password, use_password, stats, file_sizes, scan_i, scans,
                   w_i, w_data, b_calls>>
    /\ UNCHANGED <<src_kind, src, has_pyzipper, failed>>
    /\ UNCHANGED rvars
    /\ UNCHANGED <<b_ki, b_log>>
    /\ UNCHANGED free_space
    /\ UNCHANGED <<uvars, mvars>>

\* Variant of InterruptPreparation: the handler does not raise again.
InterruptPreparation_Swallow ==
    /\ InPreparation \/ InDirectScan
    /\ b_pc' = "aborted"
    /\ b_exc' = "none"
    /\ b_ki' = "prep"
    /\ free_space' = NoFrame
    /\ UNCHANGED b_log
    /\ UNCHANGED <<b_caller, b_password, use_password, stats, file_sizes, scan_i, scans,
                   w_i, w_data, b_calls>>
    /\ UNCHANGED <<envvars, rvars>>
    /\ UNCHANGED <<uvars, mvars>>

\* KeyboardInterrupt before the archive is opened (lines 309-311, 397-402):
\* it is raised again.  In a direct call of calculate_total_size it reaches
\* the test that made the call.
InterruptPreparation ==
    /\ InPreparation \/ InDirectScan
    /\ b_pc' = "aborted"
    /\ b_exc' = "KeyboardInterrupt"
    /\ b_ki' = "prep"
    /\ free_space' = NoFrame
    /\ UNCHANGED b_log
    /\ UNCHANGED <<b_caller, b_password, use_password, stats, file_sizes, scan_i, scans,
                   w_i, w_data, b_calls>>
    /\ UNCHANGED <<envvars, rvars>>
    /\ UNCHANGED <<uvars, mvars>>

\* KeyboardInterrupt inside the with block (lines 426-442, 454-464): the
\* block's exit closes the archive; if close raises, its OSError is what
\* leaves the with statement and the handler of line 454 is not entered;
\* otherwise the handler unlinks the file, ignoring a failure of unlink, and
\* raises the KeyboardInterrupt again.
InterruptWriting ==
    /\ InWithBlock \/ b_pc = "close"
    /\ open_handles' = open_handles - 1
    /\ b_ki' = "write"
    /\ UNCHANGED b_log
    /\ \E close_ok \in BOOLEAN, unlink_ok \in BOOLEAN :
          IF close_ok
          THEN /\ b_exc' = "KeyboardInterrupt"
               /\ archive' = IF unlink_ok THEN NoArchive
                             ELSE [archive EXCEPT !.finalized = TRUE]
          ELSE /\ b_exc' = "OSError"
               /\ UNCHANGED archive
    /\ b_pc' = "aborted"
    /\ UNCHANGED <<b_caller, b_password, use_password, stats, file_sizes, scan_i, scans,
                   w_i, w_data, b_calls>>
    /\ UNCHANGED <<src_kind, src, has_pyzipper, failed>>
    /\ UNCHANGED rvars
    /\ UNCHANGED free_space
    /\ UNCHANGED <<uvars, mvars>>

\* ------------------------------------------------------ reading an archive
\* Exceptions the restore raises, by type and message.
ErrPasswordRequired == "RuntimeError: Password required or incorrect"
ErrIncorrectPassword == "RuntimeError: Incorrect password"
ErrInstallPyzipper == "RuntimeError: Archive appears to be encrypted. Install pyzipper"
ErrNotImplemented == "NotImplementedError: That compression method is not supported"
ErrBadZipFile == "BadZipFile"

\* NotImplementedError is a subclass of RuntimeError.
IsRuntimeError(e) ==
    e \in {ErrPasswordRequired, ErrIncorrectPassword, ErrInstallPyzipper, ErrNotImplemented}

\* "password" in str(e).lower()
MentionsPassword(e) == e \in {ErrPasswordRequired, ErrIncorrectPassword, "pw"}

\* ZipInfo.is_dir(): the name ends with "/".
IsDirEntry(e) == Len(e.name) > 0 /\ e.name[Len(e.name)] = "/"

\* ZipInfo.file_size
FileSizeOf(e) == Len(e.data)

\* The container can be opened: its central directory was written.
ContainerReadable(a) == a.exists /\ a.finalized

\* The entry is stored encrypted under a key other than pwd.
NeedsOtherPassword(e, pwd) == e.enc # "none" /\ e.key # pwd

\* archive.open(name, pwd) / archive.read(name, pwd) on an archive object of
\* class cls (restore_folder.py lines 156, 171, 230, 311-313):
\*   "pw"      RuntimeError, password required or bad password (at open)
\*   "notimpl" NotImplementedError: zipfile.ZipFile cannot decode an AES entry
\*   "crc"     BadZipFile, raised when the read reaches the entry's end
\*   "ok"      the entry's bytes
ReadEntry(cls, e, pwd) ==
    IF e.enc # "none" /\ pwd = NoPassword THEN "pw"
    ELSE IF e.enc = "aes" /\ cls = "std" THEN "notimpl"
    ELSE IF NeedsOtherPassword(e, pwd) THEN "pw"
    ELSE IF e.corrupt THEN "crc"
    ELSE "ok"

\* archive.getinfo(name): the last entry stored under the name.
GetInfo(entries, name) ==
    entries[CHOOSE i \in 1..Len(entries) :
                /\ entries[i].name = name
                /\ \A j \in (i + 1)..Len(entries) : entries[j].name # name]

\* archive.namelist()
NameList(entries) == [i \in 1..Len(entries) |-> entries[i].name]

\* The second half of ArchiveOpener.open_archive (lines 163-181): the AES
\* class.  leaked counts the handles opened and left open.
OpenWithPyzipper(a, pwd, pyzipper, leaked) ==
    IF ~pyzipper THEN [exc |-> ErrInstallPyzipper, cls |-> "none", leaked |-> leaked]
    ELSE IF ~ContainerReadable(a) THEN [exc |-> ErrBadZipFile, cls |-> "none", leaked |-> leaked]
    ELSE IF Len(a.entries) = 0 THEN [exc |-> "none", cls |-> "aes", leaked |-> leaked]
    ELSE LET r == ReadEntry("aes", GetInfo(a.entries, a.entries[1].name), pwd)
         IN  IF r = "ok" THEN [exc |-> "none", cls |-> "aes", leaked |-> leaked]
             ELSE IF r = "crc"
             THEN [exc |-> ErrBadZipFile, cls |-> "none", leaked |-> leaked + 1]
             ELSE IF MentionsPassword(r)
             THEN [exc |-> ErrIncorrectPassword, cls |-> "none", leaked |-> leaked + 1]
             ELSE [exc |-> ErrNotImplemented, cls |-> "none", leaked |-> leaked + 1]

\* ArchiveOpener.open_archive (lines 135-181): the plain class first; a
\* RuntimeError of the probe closes the archive before the AES class is
\* tried, a BadZipFile of the probe does not.
open_archive(a, pwd, pyzipper) ==
    IF ~ContainerReadable(a) THEN OpenWithPyzipper(a, pwd, pyzipper, 0)
    ELSE IF Len(a.entries) = 0 THEN [exc |-> "none", cls |-> "std", leaked |-> 0]
    ELSE LET r == ReadEntry("std", GetInfo(a.entries, a.entries[1].name), pwd)
         IN  IF r = "ok" THEN [exc |-> "none", cls |-> "std", leaked |-> 0]
             ELSE IF r = "crc" THEN OpenWithPyzipper(a, pwd, pyzipper, 1)
             ELSE OpenWithPyzipper(a, pwd, pyzipper, 0)

\* ZipFile.testzip(): reads the entries in order; it RETURNS the name of the
\* first entry with a bad CRC, and raises what a read raises otherwise.
\* The result is "none" or the exception raised.
RECURSIVE testzip(_, _, _, _)
testzip(cls, entries, i, pwd) ==
    IF i > Len(entries) THEN "none"
    ELSE LET r == ReadEntry(cls, entries[i], pwd)
         IN  IF r = "ok" THEN testzip(cls, entries, i + 1, pwd)
             ELSE IF r = "crc" THEN "none"
             ELSE IF r = "pw" THEN "pw"
             ELSE ErrNotImplemented

\* Variant of validate_archive: the archive is opened but testzip is not run.
validate_archive_NoTestzip(a, pwd, pyzipper) ==
    IF ~a.exists THEN [exc |-> "FileNotFoundError", leaked |-> 0]
    ELSE LET o == open_archive(a, pwd, pyzipper)
         IN  IF o.exc = ErrBadZipFile THEN [exc |-> ErrBadZipFile, leaked |-> o.leaked]
             ELSE IF o.exc # "none"
             THEN [exc |-> IF MentionsPassword(o.exc) THEN ErrPasswordRequired ELSE o.exc,
                   leaked |-> o.leaked]
             ELSE [exc |-> "none", leaked |-> o.leaked]

\* RestoreExtractor.validate_archive (lines 209-238): the exception it raises
\* ("none" if none) and the handles it leaves open.  The value testzip
\* returns is not looked at.
validate_archive(a, pwd, pyzipper) ==
    IF ~a.exists THEN [exc |-> "FileNotFoundError", leaked |-> 0]
    ELSE LET o == open_archive(a, pwd, pyzipper)
         IN  IF o.exc = ErrBadZipFile THEN [exc |-> ErrBadZipFile, leaked |-> o.leaked]
             ELSE IF o.exc # "none"
             THEN [exc |-> IF MentionsPassword(o.exc) THEN ErrPasswordRequired ELSE o.exc,
                   leaked |-> o.leaked]
             ELSE LET t == testzip(o.cls, a.entries, 1, pwd)
                  IN  [exc |-> IF t = "none" THEN "none"
                               ELSE IF MentionsPassword(t) THEN ErrPasswordRequired
                               ELSE t,
                       leaked |-> o.leaked]

\* ------------------------------------------------------------ RestoreStats
InitRestoreStats ==
    [total_files |-> 0, extracted_files |-> 0, total_size |-> 0,
     extracted_size |-> 0, skipped_files |-> 0, errors |-> 0]

\* RestoreStats.progress_percent, as a whole number of percent (rounded down).
restore_progress_percent(s) ==
    IF s.total_files = 0 THEN 0
    ELSE (s.extracted_files * 100) \div s.total_files

\* Lines 287-289: the uncompressed size of the entries that are not
\* directories.
TotalEntrySize(entries) ==
    SumSeq([i \in 1..Len(entries) |->
               IF IsDirEntry(entries[i]) THEN 0 ELSE FileSizeOf(entries[i])])

\* --------------------------------------------- RestoreExtractor operations
InExtractLoop == r_pc \in {"x_open", "x_copy", "x_count", "x_size"}
RestoreEnded == r_pc \in {"done", "aborted"}

RestoreCallback(calls, s) == Append(calls, s.extracted_files)

\* Lines 320-323: the report after an entry was extracted.
EntryCallback(calls, s) ==
    IF \/ s.extracted_files % PROGRESS_UPDATE_INTERVAL = 0
       \/ s.extracted_files = s.total_files
    THEN RestoreCallback(calls, s)
    ELSE calls

NextEntryPc(i) == IF i + 1 > Len(archive.entries) THEN "x_close" ELSE "x_open"

\* The entry the loop is at: file_list[r_i] looked up by archive.getinfo.
CurrentName == NameList(archive.entries)[r_i]
CurrentInfo == GetInfo(archive.entries, CurrentName)
CurrentTarget == JoinPath(TargetDir, CurrentName)

WriteTarget(t, path, data) ==
    [q \in DOMAIN t \cup {path} |-> IF q = path THEN data ELSE t[q]]

\* RestoreExtractor.__init__ (lines 187-207) in a run of the restore program
\* on the archive a completed backup left, or on an archive made elsewhere.
\* The backup program has exited by then: of the BackupCreator only the
\* password it was given is remembered.  A backup that left files out made
\* the archive of the tree without those files, which is another source
\* tree of the model, so the restore follows the backups that left none out.
NewRestoreExtractor ==
    /\ r_pc = "none"
    /\ b_pc \in {"done", "unused"}
    /\ failed = {}
    /\ \E pwd \in {NoPassword} \cup Keys : r_password' = pwd
    /\ r_pc' = "validate"
    /\ b_pc' = "exited"
    /\ b_caller' = "none"
    /\ stats' = InitStats
    /\ file_sizes' = <<>>
    /\ scan_i' = 1
    /\ scans' = 0
    /\ w_i' = 1
    /\ b_calls' = <<>>
    /\ b_log' = <<>>
    /\ UNCHANGED <<b_password, use_password, w_data, b_exc, b_ki>>
    /\ UNCHANGED <<rstats, r_cls, r_i, r_exc, r_calls, r_failed, target, target_exists>>
    /\ UNCHANGED envvars
    /\ UNCHANGED free_space
    /\ UNCHANGED r_ki
    /\ UNCHANGED <<uvars, mvars>>

\* extract_archive, line 272.
ValidateArchive ==
    /\ r_pc = "validate"
    /\ LET v == validate_archive(archive, r_password, has_pyzipper)
       IN  /\ open_handles' = open_handles + v.leaked
           /\ IF v.exc = "none"
              THEN r_pc' = "space" /\ UNCHANGED r_exc
              ELSE r_pc' = "aborted" /\ r_exc' = v.exc
    /\ UNCHANGED <<r_password, rstats, r_cls, r_i, r_calls, r_failed, target, target_exists>>
    /\ UNCHANGED <<src_kind, src, has_pyzipper, archive, failed>>
    /\ UNCHANGED bvars
    /\ UNCHANGED free_space
    /\ UNCHANGED r_ki
    /\ UNCHANGED <<uvars, mvars>>

\* check_disk_space, line 254.
RequiredSpace(archive_size) == archive_size * 2

\* check_disk_space, lines 247-253: the size of the archive file and the free
\* space of the target's drive, which exists.
RestoreDiskUsage ==
    /\ r_pc = "space"
    /\ \E free \in FreeSpaces(RequiredSpace(ArchiveFileSize(archive))) : free_space' = free
    /\ r_pc' = "space_cmp"
    /\ UNCHANGED <<r_password, rstats, r_cls, r_i, r_exc, r_calls, r_failed, target,
                   target_exists>>
    /\ UNCHANGED <<envvars, bvars>>
    /\ UNCHANGED r_ki
    /\ UNCHANGED <<uvars, mvars>>

\* Variant of RestoreSpaceVerdict: the size of the archive is asked for,
\* without the margin.
RestoreSpaceVerdict_NoMargin(archive_size, free) ==
    IF free < archive_size THEN "OSError" ELSE "none"

\* check_disk_space, lines 254-260: what it raises ("none" if it returns).
RestoreSpaceVerdict(archive_size, free) ==
    IF free < RequiredSpace(archive_size) THEN "OSError" ELSE "none"

\* check_disk_space, lines 256-260: the comparison.  The OSError keeps the
\* free space in its message; a return drops the local.
RestoreCheckDiskSpace ==
    /\ r_pc = "space_cmp"
    /\ IF RestoreSpaceVerdict(ArchiveFileSize(archive), free_space) # "none"
       THEN /\ r_pc' = "aborted"
            /\ r_exc' = RestoreSpaceVerdict(ArchiveFileSize(archive), free_space)
            /\ UNCHANGED free_space
       ELSE /\ r_pc' = "mkdir"
            /\ free_space' = NoFrame
            /\ UNCHANGED r_exc
    /\ UNCHANGED <<r_password, rstats, r_cls, r_i, r_calls, r_failed, target, target_exists>>
    /\ UNCHANGED <<envvars, bvars>>
    /\ UNCHANGED r_ki
    /\ UNCHANGED <<uvars, mvars>>

\* Line 276.
MakeTargetDir ==
    /\ r_pc = "mkdir"
    /\ target_exists' = TRUE
    /\ r_pc' = "open"
    /\ UNCHANGED <<r_password, rstats, r_cls, r_i, r_exc, r_calls, r_failed, target>>
    /\ UNCHANGED <<envvars, bvars>>
    /\ UNCHANGED free_space
    /\ UNCHANGED r_ki
    /\ UNCHANGED <<uvars, mvars>>

\* Lines 280-293: the archive is opened again, the totals are taken from its
\* list of entries and the progress is reported once.  An exception of
\* open_archive leaves `archive` None, so the finally clause closes nothing.
OpenForRead ==
    /\ r_pc = "open"
    /\ LET o == open_archive(archive, r_password, has_pyzipper)
       IN  IF o.exc # "none"
           THEN /\ r_pc' = "aborted"
                /\ r_exc' = o.exc
                /\ open_handles' = open_handles + o.leaked
                /\ UNCHANGED <<rstats, r_cls, r_i, r_calls>>
           ELSE /\ r_cls' = o.cls
                /\ open_handles' = open_handles + o.leaked + 1
                /\ rstats' = [rstats EXCEPT !.total_files = Len(archive.entries),
                                            !.total_size = @ + TotalEntrySize(archive.entries)]
                /\ r_calls' = RestoreCallback(r_calls, rstats')
                /\ r_i' = 1
                /\ r_pc' = IF Len(archive.entries) = 0 THEN "x_close" ELSE "x_open"
                /\ UNCHANGED r_exc
    /\ UNCHANGED <<r_password, r_failed, target, target_exists>>
    /\ UNCHANGED <<src_kind, src, has_pyzipper, archive, failed>>
    /\ UNCHANGED bvars
    /\ UNCHANGED free_space
    /\ UNCHANGED r_ki
    /\ UNCHANGED <<uvars, mvars>>

\* Variant of SkipEntry: the statistics of a successful extraction are
\* updated after the handler as well.
SkipEntry_AlsoCounted ==
    /\ rstats' = [rstats EXCEPT !.skipped_files = @ + 1, !.errors = @ + 1,
                                !.extracted_files = @ + 1]
    /\ r_failed' = r_failed \cup {r_i}
    /\ r_i' = r_i + 1
    /\ r_pc' = NextEntryPc(r_i)
    /\ UNCHANGED <<r_exc, r_calls, open_handles>>

\* Lines 325-332: an OSError on the entry is counted and the loop goes on.
SkipEntry ==
    /\ rstats' = [rstats EXCEPT !.skipped_files = @ + 1, !.errors = @ + 1]
    /\ r_failed' = r_failed \cup {r_i}
    /\ r_i' = r_i + 1
    /\ r_pc' = NextEntryPc(r_i)
    /\ UNCHANGED <<r_exc, r_calls, open_handles>>

\* The exception leaves the try statement of line 279: the finally clause
\* closes the archive.
AbortExtraction(exc) ==
    /\ r_exc' = exc
    /\ r_pc' = "aborted"
    /\ open_handles' = open_handles - 1
    /\ UNCHANGED <<rstats, r_i, r_calls, r_failed>>

\* Lines 298-312 for one name of file_list: a directory entry is passed
\* over; otherwise the parents are made, the entry is opened in the archive
\* (where a password error shows) and the target file is created.
ExtractOpen ==
    /\ r_pc = "x_open"
    /\ LET r == ReadEntry(r_cls, CurrentInfo, r_password)
       IN  \/ /\ IsDirEntry(CurrentInfo)
              /\ r_i' = r_i + 1
              /\ r_pc' = NextEntryPc(r_i)
              /\ UNCHANGED <<rstats, r_exc, r_calls, r_failed, open_handles, target>>
           \/ /\ ~IsDirEntry(CurrentInfo)
              /\ r \in {"ok", "crc"}
              /\ target' = WriteTarget(target, CurrentTarget, <<>>)
              /\ r_pc' = "x_copy"
              /\ UNCHANGED <<rstats, r_i, r_exc, r_calls, r_failed, open_handles>>
           \/ /\ ~IsDirEntry(CurrentInfo)
              /\ r \in {"pw", "notimpl"}
              /\ AbortExtraction(IF MentionsPassword(r) THEN ErrIncorrectPassword
                                 ELSE ErrNotImplemented)
              /\ UNCHANGED target
           \/ /\ ~IsDirEntry(CurrentInfo)
              /\ SkipEntry
              /\ UNCHANGED target
    /\ UNCHANGED <<r_password, r_cls, target_exists>>
    /\ UNCHANGED <<src_kind, src, has_pyzipper, archive, failed>>
    /\ UNCHANGED bvars
    /\ UNCHANGED free_space
    /\ UNCHANGED r_ki
    /\ UNCHANGED <<uvars, mvars>>

\* Line 313, shutil.copyfileobj: the bytes reach the target file; a bad CRC
\* shows as BadZipFile when the copy reaches the entry's end, and no handler
\* of the loop catches it; an OSError leaves what was written so far.
ExtractCopy ==
    /\ r_pc = "x_copy"
    /\ LET e == CurrentInfo
       IN  \/ /\ ~e.corrupt
              /\ target' = WriteTarget(target, CurrentTarget, e.data)
              /\ r_pc' = "x_count"
              /\ UNCHANGED <<rstats, r_i, r_exc, r_calls, r_failed, open_handles>>
           \/ /\ e.corrupt
              /\ target' = WriteTarget(target, CurrentTarget, e.data)
              /\ AbortExtraction(ErrBadZipFile)
           \/ /\ \E k \in 0..Len(e.data) :
                    target' = WriteTarget(target, CurrentTarget, SubSeq(e.data, 1, k))
              /\ SkipEntry
    /\ UNCHANGED <<r_password, r_cls, target_exists>>
    /\ UNCHANGED <<src_kind, src, has_pyzipper, archive, failed>>
    /\ UNCHANGED bvars
    /\ UNCHANGED free_space
    /\ UNCHANGED r_ki
    /\ UNCHANGED <<uvars, mvars>>

\* Line 316.
ExtractCount ==
    /\ r_pc = "x_count"
    /\ rstats' = [rstats EXCEPT !.extracted_files = @ + 1]
    /\ r_pc' = "x_size"
    /\ UNCHANGED <<r_password, r_cls, r_i, r_exc, r_calls, r_failed, target, target_exists>>
    /\ UNCHANGED <<envvars, bvars>>
    /\ UNCHANGED free_space
    /\ UNCHANGED r_ki
    /\ UNCHANGED <<uvars, mvars>>

\* Lines 317-323.
ExtractSize ==
    /\ r_pc = "x_size"
    /\ rstats' = [rstats EXCEPT !.extracted_size = @ + FileSizeOf(CurrentInfo)]
    /\ r_calls' = EntryCallback(r_calls, rstats')
    /\ r_i' = r_i + 1
    /\ r_pc' = NextEntryPc(r_i)
    /\ UNCHANGED <<r_password, r_cls, r_exc, r_failed, target, target_exists>>
    /\ UNCHANGED <<envvars, bvars>>
    /\ UNCHANGED free_space
    /\ UNCHANGED r_ki
    /\ UNCHANGED <<uvars, mvars>>

\* Lines 341-347: the loop is over, the archive is closed and the progress
\* is reported a last time.
FinishExtraction ==
    /\ r_pc = "x_close"
    /\ open_handles' = open_handles - 1
    /\ r_calls' = RestoreCallback(r_calls, rstats)
    /\ r_pc' = "done"
    /\ UNCHANGED <<r_password, rstats, r_cls, r_i, r_exc, r_failed, target, target_exists>>
    /\ UNCHANGED <<src_kind, src, has_pyzipper, archive, failed>>
    /\ UNCHANGED bvars
    /\ UNCHANGED free_space
    /\ UNCHANGED r_ki
    /\ UNCHANGED <<uvars, mvars>>

\* Variant of InterruptRestore: what was written to the target is removed.
InterruptRestore_Rollback ==
    /\ \/ /\ r_pc \in {"validate", "space", "space_cmp", "mkdir", "open"}
          /\ r_ki' = "prep"
          /\ UNCHANGED open_handles
       \/ /\ InExtractLoop \/ r_pc = "x_close"
          /\ r_ki' = "extract"
          /\ open_handles' = open_handles - 1
    /\ r_exc' = "KeyboardInterrupt"
    /\ r_pc' = "aborted"
    /\ free_space' = NoFrame
    /\ target' = <<>>
    /\ UNCHANGED <<r_password, rstats, r_cls, r_i, r_calls, r_failed, target_exists>>
    /\ UNCHANGED <<src_kind, src, has_pyzipper, archive, failed>>
    /\ UNCHANGED bvars
    /\ UNCHANGED <<uvars, mvars>>

\* KeyboardInterrupt in extract_archive: before line 279 it just propagates;
\* inside the try statement the finally clause closes the archive first
\* (lines 338-343).  What was written to the target stays.
InterruptRestore ==
    /\ \/ /\ r_pc \in {"validate", "space", "space_cmp", "mkdir", "open"}
          /\ r_ki' = "prep"
          /\ UNCHANGED open_handles
       \/ /\ InExtractLoop \/ r_pc = "x_close"
          /\ r_ki' = "extract"
          /\ open_handles' = open_handles - 1
    /\ r_exc' = "KeyboardInterrupt"
    /\ r_pc' = "aborted"
    /\ free_space' = NoFrame
    /\ UNCHANGED <<r_password, rstats, r_cls, r_i, r_calls, r_failed, target, target_exists>>
    /\ UNCHANGED <<src_kind, src, has_pyzipper, archive, failed>>
    /\ UNCHANGED bvars
    /\ UNCHANGED <<uvars, mvars>>

\* ------------------------------------------------------- the specification
\* Entries an archive made by another tool can hold: a plain file, a
\* directory, a ZipCrypto-protected file, a file whose CRC does not match its
\* data, an AES-protected file, a second file stored under the name of the
\* first, a file whose name climbs out with ".." and a file with an absolute
\* name.
ForeignEntries ==
    { [name |-> <<"a">>, data |-> <<1>>, is_dir |-> FALSE, enc |-> "none",
       key |-> NoPassword, corrupt |-> FALSE],
      [name |-> <<"d", "/">>, data |-> <<>>, is_dir |-> TRUE, enc |-> "none",
       key |-> NoPassword, corrupt |-> FALSE],
      [name |-> <<"d", "/", "a">>, data |-> <<2>>, is_dir |-> FALSE, enc |-> "zipcrypto",
       key |-> "k1", corrupt |-> FALSE],
      [name |-> <<"b">>, data |-> <<1>>, is_dir |-> FALSE, enc |-> "none",
       key |-> NoPassword, corrupt |-> TRUE],
      [name |-> <<"c">>, data |-> <<2>>, is_dir |-> FALSE, enc |-> "aes",
       key |-> "k1", corrupt |-> FALSE],
      [name |-> <<"a">>, data |-> <<2, 2>>, is_dir |-> FALSE, enc |-> "none",
       key |-> NoPassword, corrupt |-> FALSE],
      [name |-> <<"..", "/", "x">>, data |-> <<1>>, is_dir |-> FALSE, enc |-> "none",
       key |-> NoPassword, corrupt |-> FALSE],
      [name |-> <<"/", "x">>, data |-> <<1>>, is_dir |-> FALSE, enc |-> "none",
       key |-> NoPassword, corrupt |-> FALSE] }

\* Lists of at most MaxEntries different entries.
EntryLists ==
    UNION {{s \in [1..n -> ForeignEntries] : \A i, j \in 1..n : i # j => s[i] # s[j]}
           : n \in 0..MaxEntries}

\* Archive files found on disk: readable containers and one that is not.
ForeignArchives ==
    {[exists |-> TRUE, entries |-> s, finalized |-> TRUE] : s \in EntryLists}
    \cup {[exists |-> TRUE, entries |-> <<>>, finalized |-> FALSE]}

InitBackup ==
    /\ b_caller = "none"
    /\ stats = InitStats
    /\ file_sizes = <<>>
    /\ scan_i = 1
    /\ scans = 0
    /\ w_i = 1
    /\ w_data = <<>>
    /\ b_exc = "none"
    /\ b_calls = <<>>
    /\ b_ki = "none"
    /\ b_log = <<>>

InitRestoreExtractor ==
    /\ r_pc = "none"
    /\ r_password = NoPassword
    /\ rstats = InitRestoreStats
    /\ r_cls = "none"
    /\ r_i = 1
    /\ r_exc = "none"
    /\ r_calls = <<>>
    /\ r_failed = {}
    /\ r_ki = "none"

\* No RestoreExtractor yet, and nothing at target_dir.
InitRestore ==
    /\ InitRestoreExtractor
    /\ target = <<>>
    /\ target_exists = FALSE


\* Exit status while the process runs; the status of a process ended by an
\* uncaught KeyboardInterrupt (killed by SIGINT: 128 + 2).
NoExit == -1
ExitSigint == 130

\* No method is called on its own.
NoCall == [fn |-> "none"]
NoUnitCall ==
    /\ u_chunk = CHUNK_SIZE
    /\ u_file = <<>>
    /\ u_ret = NoCall

\* The classes are used as a library: no main() runs.
NoMain ==
    /\ m_prog = "none"
    /\ m_pc = "none"
    /\ m_exit = NoExit
    /\ m_prompts = 0
    /\ m_password = NoPassword

\* Either a BackupCreator was constructed for a source (lines 231-255) and no
\* file is at backup_path, or an archive made elsewhere is to be restored.
Init ==
    /\ has_pyzipper \in BOOLEAN
    /\ open_handles = 0
    /\ failed = {}
    /\ free_space = NoFrame
    /\ \/ /\ src_kind \in {"dir", "file", "missing"}
          /\ src \in (IF src_kind = "dir" THEN Trees ELSE {<<>>})
          /\ archive = NoArchive
          /\ b_pc = "idle"
          /\ b_password \in {NoPassword, "k1"}
          /\ use_password = ManagerUsePassword(b_password, has_pyzipper)
       \/ /\ src_kind = "missing"
          /\ src = <<>>
          /\ archive \in ForeignArchives
          /\ b_pc = "unused"
          /\ b_password = NoPassword
          /\ use_password = FALSE
    /\ InitBackup
    /\ InitRestore
    /\ NoUnitCall
    /\ NoMain

Next ==
    \/ CalculateTotalSizeCall
    \/ ValidateSource
    \/ ScanStep
    \/ ScanReturn
    \/ BackupDiskUsage
    \/ BackupCheckDiskSpace
    \/ OpenForWrite
    \/ AddFileRead
    \/ AddFileWrite
    \/ AddFileCount
    \/ AddFileSize
    \/ FinishWriting
    \/ CloseArchive
    \/ InterruptPreparation
    \/ InterruptWriting
    \/ NewRestoreExtractor
    \/ ValidateArchive
    \/ RestoreDiskUsage
    \/ RestoreCheckDiskSpace
    \/ MakeTargetDir
    \/ OpenForRead
    \/ ExtractOpen
    \/ ExtractCopy
    \/ ExtractCount
    \/ ExtractSize
    \/ FinishExtraction
    \/ InterruptRestore

Spec == Init /\ [][Next]_vars

\* ------------------------- methods and properties called on their own
\* Bounds of the values they are called on: the longest file content, the
\* largest chunk size of a FileProcessor and the largest byte count of an
\* ArchiveStats.
MaxLen == 3
MaxChunk == 3
MaxSize == 4

FileContents == UNION {[1..n -> {1, 2}] : n \in 0..MaxLen}

\* File sizes on both sides of the threshold of _add_file_to_archive.
SizesAtThreshold == {0, CHUNK_SIZE - 1, CHUNK_SIZE, CHUNK_SIZE + 1, 2 * CHUNK_SIZE}

\* A FileProcessor(chunk_size) and a file for it to read, and an
\* ArchiveStats(total_size, archive_size), as the unit tests construct them.
InitUnit ==
    /\ u_chunk \in 1..MaxChunk
    /\ u_file \in FileContents
    /\ u_ret = NoCall
    /\ stats \in {[InitStats EXCEPT !.total_size = t, !.archive_size = a] :
                     t \in 0..MaxSize, a \in 0..MaxSize}
    /\ has_pyzipper = FALSE
    /\ open_handles = 0
    /\ failed = {}
    /\ free_space = NoFrame
    /\ src_kind = "missing"
    /\ src = <<>>
    /\ archive = NoArchive
    /\ b_pc = "unused"
    /\ b_password = NoPassword
    /\ use_password = FALSE
    /\ b_caller = "none"
    /\ file_sizes = <<>>
    /\ scan_i = 1
    /\ scans = 0
    /\ w_i = 1
    /\ w_data = <<>>
    /\ b_exc = "none"
    /\ b_calls = <<>>
    /\ b_ki = "none"
    /\ b_log = <<>>
    /\ InitRestore
    /\ NoMain

\* FileProcessor(chunk_size).read_file_chunked(file_path)
CallReadChunked ==
    /\ u_ret' = [fn |-> "read_file_chunked", value |-> read_file_chunked(u_file, u_chunk)]
    /\ UNCHANGED <<u_chunk, u_file>>
    /\ UNCHANGED <<envvars, bvars, rvars, free_space, mvars>>

\* FileProcessor(chunk_size).read_file_direct(file_path)
CallReadDirect ==
    /\ u_ret' = [fn |-> "read_file_direct", value |-> read_file_direct(u_file)]
    /\ UNCHANGED <<u_chunk, u_file>>
    /\ UNCHANGED <<envvars, bvars, rvars, free_space, mvars>>

\* Lines 355-368 of _add_file_to_archive for a file of a cached size.
CallAddFileRead ==
    /\ \E size \in SizesAtThreshold \cup {Len(u_file)} :
          u_ret' = [fn |-> "_add_file_to_archive", size |-> size,
                    method |-> ReadMethod(size), value |-> ReadFile(u_file, size)]
    /\ UNCHANGED <<u_chunk, u_file>>
    /\ UNCHANGED <<envvars, bvars, rvars, free_space, mvars>>

\* stats.compression_ratio
CallCompressionRatio ==
    /\ u_ret' = [fn |-> "compression_ratio", value |-> compression_ratio(stats)]
    /\ UNCHANGED <<u_chunk, u_file>>
    /\ UNCHANGED <<envvars, bvars, rvars, free_space, mvars>>

NextUnit ==
    \/ CallReadChunked
    \/ CallReadDirect
    \/ CallAddFileRead
    \/ CallCompressionRatio

UnitSpec == InitUnit /\ [][NextUnit]_vars

\* --------------------------------------------------- the command-line programs
\* max_attempts of restore_folder.get_password.
MAX_ATTEMPTS == 3

\* An archive a previous run left at backup_path, and a file a previous run
\* left in the target directory.
OldArchive == [exists |-> TRUE, entries |-> <<>>, finalized |-> TRUE]
OldTarget == (TargetDir \o <<"old">>) :> <<1>>

\* ArchiveOpener.is_password_protected (lines 94-133): the first entry is
\* read without a password; a RuntimeError says protected, and so does every
\* failure of the second attempt made after a BadZipFile.
is_password_protected(a, pyzipper) ==
    IF ~ContainerReadable(a) THEN TRUE
    ELSE IF Len(a.entries) = 0 THEN FALSE
    ELSE LET first == GetInfo(a.entries, a.entries[1].name)
             r == ReadEntry("std", first, NoPassword)
         IN  IF r = "ok" THEN FALSE
             ELSE IF r \in {"pw", "notimpl"} THEN TRUE
             ELSE IF ~pyzipper THEN TRUE
             ELSE ReadEntry("aes", first, NoPassword) # "ok"

\* verify_password (lines 399-419): the archive is opened with the password
\* and its first entry is read; every exception gives False.
verify_password(a, pwd, pyzipper) ==
    LET o == open_archive(a, pwd, pyzipper)
    IN  IF o.exc # "none" THEN FALSE
        ELSE IF Len(a.entries) = 0 THEN TRUE
        ELSE ReadEntry(o.cls, GetInfo(a.entries, a.entries[1].name), pwd) = "ok"

\* main returns (or the process ends) at a place with an exit status.
MainEnds(place, status) ==
    /\ m_pc' = place
    /\ m_exit' = status

\* backup_folder.main, lines 635-641: the source directory is looked at.
MainCheckSource ==
    /\ m_pc = "b_source"
    /\ IF src_kind = "missing" THEN MainEnds("ret_source_missing", 1)
       ELSE IF src_kind = "file" THEN MainEnds("ret_not_a_directory", 1)
       ELSE m_pc' = "b_exists" /\ UNCHANGED m_exit
    /\ UNCHANGED <<m_prog, m_prompts, m_password>>
    /\ UNCHANGED <<envvars, bvars, rvars, free_space, uvars>>

\* backup_folder.main, lines 647-658: an archive found at backup_path is
\* removed if the user answers y; any other answer ends the program, and an
\* interrupt at the prompt reaches the handler of line 724.
MainOverwrite ==
    /\ m_pc = "b_exists"
    /\ IF ~archive.exists
       THEN m_pc' = "b_password" /\ UNCHANGED <<m_exit, archive>>
       ELSE \E response \in {"y", "n", "interrupt"} :
               \/ /\ response = "y"
                  /\ archive' = NoArchive
                  /\ m_pc' = "b_password"
                  /\ UNCHANGED m_exit
               \/ /\ response = "n"
                  /\ MainEnds("ret_declined", 0)
                  /\ UNCHANGED archive
               \/ /\ response = "interrupt"
                  /\ MainEnds("ret_interrupted", 1)
                  /\ UNCHANGED archive
    /\ UNCHANGED <<m_prog, m_prompts, m_password>>
    /\ UNCHANGED <<src_kind, src, has_pyzipper, open_handles, failed>>
    /\ UNCHANGED <<bvars, rvars, free_space, uvars>>

\* backup_folder.main, lines 660-683, with backup_folder.get_password (lines
\* 502-526): without --password no password is asked for; an empty password
\* or a confirmation that differs is a ValueError, an interrupt at either
\* prompt is caught at line 668, and a password that was set is dropped when
\* pyzipper cannot be imported.
MainSetPassword ==
    /\ m_pc = "b_password"
    /\ \E asked \in {"no", "empty", "mismatch", "interrupt", "k1"} :
          \/ /\ asked = "no"
             /\ m_pc' = "b_create"
             /\ UNCHANGED <<m_exit, m_password>>
          \/ /\ asked \in {"empty", "mismatch"}
             /\ MainEnds("ret_password_invalid", 1)
             /\ UNCHANGED m_password
          \/ /\ asked = "interrupt"
             /\ MainEnds("ret_cancelled_at_password", 0)
             /\ UNCHANGED m_password
          \/ /\ asked \in Keys
             /\ m_password' = IF has_pyzipper THEN asked ELSE NoPassword
             /\ m_pc' = "b_create"
             /\ UNCHANGED m_exit
    /\ UNCHANGED <<m_prog, m_prompts>>
    /\ UNCHANGED <<envvars, bvars, rvars, free_space, uvars>>

\* backup_folder.main, lines 701-706: the BackupCreator is constructed;
\* create_archive (line 709) starts with ValidateSource.
MainNewCreator ==
    /\ m_pc = "b_create"
    /\ b_pc' = "idle"
    /\ b_password' = m_password
    /\ use_password' = ManagerUsePassword(m_password, has_pyzipper)
    /\ m_pc' = "b_run"
    /\ UNCHANGED <<m_prog, m_exit, m_prompts, m_password>>
    /\ UNCHANGED <<b_caller, stats, file_sizes, scan_i, scans, w_i, w_data, b_exc, b_calls,
                   b_ki, b_log>>
    /\ UNCHANGED <<envvars, rvars, free_space, uvars>>

\* backup_folder.main, lines 708-734: create_archive has returned or raised.
MainBackupResult ==
    /\ m_pc = "b_run"
    /\ BackupEnded
    /\ IF b_pc = "done" THEN MainEnds("ret_succeeded", 0)
       ELSE IF b_exc = "KeyboardInterrupt" THEN MainEnds("ret_interrupted", 1)
       ELSE MainEnds("ret_failed", 1)
    /\ UNCHANGED <<m_prog, m_prompts, m_password>>
    /\ UNCHANGED <<envvars, bvars, rvars, free_space, uvars>>

\* restore_folder.main, lines 490-492.
MainCheckArchive ==
    /\ m_pc = "r_archive"
    /\ IF ~archive.exists THEN MainEnds("ret_archive_missing", 1)
       ELSE m_pc' = "r_target" /\ UNCHANGED m_exit
    /\ UNCHANGED <<m_prog, m_prompts, m_password>>
    /\ UNCHANGED <<envvars, bvars, rvars, free_space, uvars>>

\* restore_folder.main, lines 506-515: a target directory that is not empty
\* is written to only if the user answers y.  The prompt is outside every
\* try statement of main: an interrupt at it ends the process.
MainConfirmTarget ==
    /\ m_pc = "r_target"
    /\ IF target = <<>>
       THEN m_pc' = "r_protected" /\ UNCHANGED m_exit
       ELSE \E response \in {"y", "n", "interrupt"} :
               \/ /\ response = "y"
                  /\ m_pc' = "r_protected"
                  /\ UNCHANGED m_exit
               \/ /\ response = "n"
                  /\ MainEnds("ret_declined", 0)
               \/ /\ response = "interrupt"
                  /\ MainEnds("uncaught_interrupt", ExitSigint)
    /\ UNCHANGED <<m_prog, m_prompts, m_password>>
    /\ UNCHANGED <<envvars, bvars, rvars, free_space, uvars>>

\* restore_folder.main, lines 518-523: an archive that is not protected is
\* extracted without a password; for a protected one the password of the
\* command line is taken, or get_password is called.
MainResolvePassword ==
    /\ m_pc = "r_protected"
    /\ IF ~is_password_protected(archive, has_pyzipper)
       THEN m_pc' = "r_extract" /\ UNCHANGED m_password
       ELSE \E given \in {NoPassword} \cup Keys :
               IF given # NoPassword
               THEN m_password' = given /\ m_pc' = "r_verify"
               ELSE m_pc' = "r_prompt" /\ UNCHANGED m_password
    /\ UNCHANGED <<m_prog, m_exit, m_prompts>>
    /\ UNCHANGED <<envvars, bvars, rvars, free_space, uvars>>

\* One round of the loop of restore_folder.get_password (lines 383-396) and
\* the handlers of main (lines 525-531): an empty answer asks again, an
\* interrupt is caught at line 529, and after max_attempts prompts the
\* ValueError of line 396 is caught at line 526.
MainPrompt ==
    /\ m_pc = "r_prompt"
    /\ IF m_prompts = MAX_ATTEMPTS
       THEN /\ MainEnds("ret_password_invalid", 1)
            /\ UNCHANGED <<m_prompts, m_password>>
       ELSE /\ m_prompts' = m_prompts + 1
            /\ \E typed \in {"empty", "interrupt"} \cup Keys :
                  \/ /\ typed = "empty"
                     /\ UNCHANGED <<m_pc, m_exit, m_password>>
                  \/ /\ typed = "interrupt"
                     /\ MainEnds("ret_cancelled_at_password", 0)
                     /\ UNCHANGED m_password
                  \/ /\ typed \in Keys
                     /\ m_password' = typed
                     /\ m_pc' = "r_verify"
                     /\ UNCHANGED m_exit
    /\ UNCHANGED m_prog
    /\ UNCHANGED <<envvars, bvars, rvars, free_space, uvars>>

\* Variant of MainVerify: the result of verify_password is not looked at.
MainVerify_Unchecked ==
    /\ m_pc = "r_verify"
    /\ open_handles' = open_handles + open_archive(archive, m_password, has_pyzipper).leaked
    /\ m_pc' = "r_extract"
    /\ UNCHANGED m_exit
    /\ UNCHANGED <<m_prog, m_prompts, m_password>>
    /\ UNCHANGED <<src_kind, src, has_pyzipper, archive, failed>>
    /\ UNCHANGED <<bvars, rvars, free_space, uvars>>

\* restore_folder.main, lines 533-538: the password is tried once; the
\* archive verify_password opened stays open where open_archive leaves it so.
MainVerify ==
    /\ m_pc = "r_verify"
    /\ open_handles' = open_handles + open_archive(archive, m_password, has_pyzipper).leaked
    /\ IF verify_password(archive, m_password, has_pyzipper)
       THEN m_pc' = "r_extract" /\ UNCHANGED m_exit
       ELSE MainEnds("ret_incorrect_password", 1)
    /\ UNCHANGED <<m_prog, m_prompts, m_password>>
    /\ UNCHANGED <<src_kind, src, has_pyzipper, archive, failed>>
    /\ UNCHANGED <<bvars, rvars, free_space, uvars>>

\* restore_folder.main, lines 551-556: the RestoreExtractor is constructed;
\* extract_archive (line 559) starts with ValidateArchive.
MainNewExtractor ==
    /\ m_pc = "r_extract"
    /\ r_password' = m_password
    /\ r_pc' = "validate"
    /\ m_pc' = "r_run"
    /\ UNCHANGED <<m_prog, m_exit, m_prompts, m_password>>
    /\ UNCHANGED <<rstats, r_cls, r_i, r_exc, r_calls, r_failed, r_ki, target, target_exists>>
    /\ UNCHANGED <<envvars, bvars, free_space, uvars>>

\* restore_folder.main, lines 558-579: extract_archive has returned or raised.
MainRestoreResult ==
    /\ m_pc = "r_run"
    /\ RestoreEnded
    /\ IF r_pc = "done" THEN MainEnds("ret_succeeded", 0)
       ELSE IF r_exc = "KeyboardInterrupt" THEN MainEnds("ret_interrupted", 1)
       ELSE MainEnds("ret_failed", 1)
    /\ UNCHANGED <<m_prog, m_prompts, m_password>>
    /\ UNCHANGED <<envvars, bvars, rvars, free_space, uvars>>

\* An interrupt while main runs its own statements: in backup_folder.main
\* they are all inside the try of line 624, whose handler (line 724) returns
\* 1; in restore_folder.main only extract_archive is inside a try.
MainInterrupt ==
    /\ \/ /\ m_pc \in {"b_source", "b_create"}
          /\ MainEnds("ret_interrupted", 1)
       \/ /\ m_pc \in {"r_archive", "r_protected", "r_verify", "r_extract"}
          /\ MainEnds("uncaught_interrupt", ExitSigint)
    /\ UNCHANGED <<m_prog, m_prompts, m_password>>
    /\ UNCHANGED <<envvars, bvars, rvars, free_space, uvars>>

\* One of the programs is started: backup_folder.py on a source path, with
\* or without an archive of the same name left by an earlier run, or
\* restore_folder.py on an archive path, with or without a file in the
\* target directory.
InitMain ==
    /\ has_pyzipper \in BOOLEAN
    /\ open_handles = 0
    /\ failed = {}
    /\ free_space = NoFrame
    /\ b_pc = "unused"
    /\ b_password = NoPassword
    /\ use_password = FALSE
    /\ InitBackup
    /\ InitRestoreExtractor
    /\ NoUnitCall
    /\ m_exit = NoExit
    /\ m_prompts = 0
    /\ m_password = NoPassword
    /\ \/ /\ m_prog = "backup"
          /\ m_pc = "b_source"
          /\ src_kind \in {"dir", "file", "missing"}
          /\ src \in (IF src_kind = "dir" THEN Trees ELSE {<<>>})
          /\ archive \in {NoArchive, OldArchive}
          /\ target = <<>>
          /\ target_exists = FALSE
       \/ /\ m_prog = "restore"
          /\ m_pc = "r_archive"
          /\ src_kind = "missing"
          /\ src = <<>>
          /\ archive \in ForeignArchives \cup {NoArchive}
          /\ target \in {<<>>, OldTarget}
          /\ target_exists = (target # <<>>)

NextMain ==
    \/ MainCheckSource
    \/ MainOverwrite
    \/ MainSetPassword
    \/ MainNewCreator
    \/ MainBackupResult
    \/ MainCheckArchive
    \/ MainConfirmTarget
    \/ MainResolvePassword
    \/ MainPrompt
    \/ MainVerify
    \/ MainNewExtractor
    \/ MainRestoreResult
    \/ MainInterrupt
    \/ ValidateSource
    \/ ScanStep
    \/ ScanReturn
    \/ BackupDiskUsage
    \/ BackupCheckDiskSpace
    \/ OpenForWrite
    \/ AddFileRead
    \/ AddFileWrite
    \/ AddFileCount
    \/ AddFileSize
    \/ FinishWriting
    \/ CloseArchive
    \/ InterruptPreparation
    \/ InterruptWriting
    \/ ValidateArchive
    \/ RestoreDiskUsage
    \/ RestoreCheckDiskSpace
    \/ MakeTargetDir
    \/ OpenForRead
    \/ ExtractOpen
    \/ ExtractCopy
    \/ ExtractCount
    \/ ExtractSize
    \/ FinishExtraction
    \/ InterruptRestore

MainSpec == InitMain /\ [][NextMain]_vars

\* ------------------------------------------------------------------ claims
\* The plan of the write step as relative paths, the bytes planned and the
\* bytes of the files added so far; the i-th entry of the archive and the
\* path its content is written to.
PlanRels == [i \in 1..Len(file_sizes) |-> relative_to(file_sizes[i].path, SourceDir)]
PlannedBytes == SumSeq([i \in 1..Len(file_sizes) |-> file_sizes[i].size])
AddedBytes == SumSeq([i \in 1..Len(b_log) |-> b_log[i].size])
EntryAt(i) == archive.entries[i]
EntryTarget(i) == JoinPath(TargetDir, EntryAt(i).name)
\* What archive.getinfo and archive.open fetch for the i-th name.
InfoAt(i) == GetInfo(archive.entries, EntryAt(i).name)

\* C1: a backup of a source tree on which no I/O call failed, followed by a
\* restore of the produced archive with the password the backup was given
\* (or none, if it was given none) into a fresh target directory on which no
\* I/O call failed, leaves under the target directory exactly the relative
\* file paths of the source, each with the same bytes.
C1_RoundTrip ==
    (/\ r_pc = "done"
     /\ src_kind = "dir"
     /\ failed = {}
     /\ r_failed = {}
     /\ r_password = b_password)
    => /\ DOMAIN target = {TargetDir \o rel : rel \in DOMAIN src}
       /\ \A rel \in DOMAIN src : target[TargetDir \o rel] = src[rel]

C1_Witness ==
    /\ r_pc = "done"
    /\ src_kind = "dir"
    /\ failed = {}
    /\ r_failed = {}
    /\ r_password = b_password
    /\ b_password = "k1"
    /\ has_pyzipper
    /\ DOMAIN src = {<<"a">>, <<"d", "a">>}
    /\ src[<<"a">>] # src[<<"d", "a">>]
    /\ DOMAIN target = {TargetDir \o <<"a">>, TargetDir \o <<"d", "a">>}

\* C2: after a KeyboardInterrupt in the write step of create_archive, the
\* archive handle is closed, no file is at backup_path and the exception
\* create_archive raises is the KeyboardInterrupt.
C2_InterruptedWriteLeavesNoArchive ==
    (b_pc = "aborted" /\ b_ki = "write")
    => /\ open_handles = 0
       /\ ~archive.exists
       /\ b_exc = "KeyboardInterrupt"

\* C3: after a KeyboardInterrupt in the preparation steps (validate_source,
\* calculate_total_size, check_disk_space) the KeyboardInterrupt is what the
\* caller gets, the archive was never opened (no handle, no first progress
\* report) and no file is at backup_path.
C3_InterruptedPreparation ==
    (b_pc = "aborted" /\ b_ki = "prep")
    => /\ b_exc = "KeyboardInterrupt"
       /\ archive = NoArchive
       /\ open_handles = 0
       /\ b_calls = <<>>
       /\ b_log = <<>>

C3_Witness ==
    /\ b_pc = "aborted"
    /\ b_ki = "prep"
    /\ b_caller = "create"
    /\ stats.total_files > 0
    /\ scan_i <= Len(Rglob)

\* C4: in every state of a backup, processed_files + skipped_files is at
\* most total_files.
C4_BackupCounters ==
    stats.processed_files + stats.skipped_files <= stats.total_files

C4_Witness ==
    /\ b_pc = "close"
    /\ stats.processed_files = 1
    /\ stats.skipped_files = 1
    /\ stats.total_files = 2

C6_HandlesClosed ==
    (BackupEnded \/ RestoreEnded) => open_handles = 0

\* C7: a restore of an intact archive holding an entry protected by a
\* password other than the one supplied ends, unless interrupted, with a
\* RuntimeError raised before the target directory is made; and in every
\* state no target file exists for an entry that needs another password.
HasProtectedEntry ==
    \E i \in 1..Len(archive.entries) : NeedsOtherPassword(EntryAt(i), r_password)

IntactArchive ==
    /\ ContainerReadable(archive)
    /\ \A i \in 1..Len(archive.entries) : ~EntryAt(i).corrupt

C8_LoopOver ==
    b_pc \in {"final", "close", "done"}
    => /\ [i \in 1..Len(b_log) |-> b_log[i].rel] = PlanRels
       /\ stats.processed_files + stats.skipped_files = Len(file_sizes)

C8_FailureStep ==
    (InWriteLoop /\ stats'.skipped_files # stats.skipped_files)
    => /\ stats'.skipped_files = stats.skipped_files + 1
       /\ stats'.processed_files = stats.processed_files
       /\ stats'.processed_size = stats.processed_size
       /\ w_i' = w_i + 1
       /\ b_pc' = (IF w_i' > Len(file_sizes) THEN "final" ELSE "w_read")
       /\ b_exc' = "none"

C8_SkipAndContinue == [](C8_LoopOver) /\ [][C8_FailureStep]_vars

C8_Witness ==
    /\ b_pc = "done"
    /\ Len(b_log) = 2
    /\ ~b_log[1].added
    /\ b_log[2].added
    /\ stats.skipped_files = 1
    /\ stats.processed_files = 1

\* C9: in the extraction loop a step in which an entry fails adds one to
\* skipped_files and to errors and moves on to the next entry, and the only
\* exceptions that end the loop are the user's interrupt and the 'incorrect
\* password' error.
C9_EntryFailureStep ==
    (InExtractLoop /\ r_failed' # r_failed)
    => /\ rstats'.skipped_files = rstats.skipped_files + 1
       /\ rstats'.errors = rstats.errors + 1
       /\ r_pc' \in {"x_open", "x_close"}

C9_AbortStep ==
    (InExtractLoop /\ r_pc' = "aborted")
    => r_exc' \in {ErrIncorrectPassword, "KeyboardInterrupt"}

C9_OnlyCredentialAborts == [][C9_EntryFailureStep /\ C9_AbortStep]_vars

IntervalReports(n) ==
    [k \in 1..(n \div PROGRESS_UPDATE_INTERVAL) |-> k * PROGRESS_UPDATE_INTERVAL]

\* C11: the backup reports the progress once before the first file (with no
\* file processed), once each time processed_files has reached another
\* multiple of 10, and once after the last file when 10 does not divide the
\* number of processed files; whatever the plan, skipped files included, no
\* other report is made.
C11_ProgressReports ==
    /\ b_pc \in {"w_read", "final"}
       => b_calls = <<0>> \o IntervalReports(stats.processed_files)
    /\ b_pc \in {"close", "done"}
       => b_calls = <<0>> \o IntervalReports(stats.processed_files)
                    \o (IF stats.processed_files % PROGRESS_UPDATE_INTERVAL # 0
                        THEN <<stats.processed_files>> ELSE <<>>)

\* C12: when the restore has completed, the first report was made before any
\* entry was extracted, the last one carries the final state, and the final
\* state was reported exactly once.
C12_FinalStateReportedOnce ==
    r_pc = "done"
    => /\ Len(r_calls) >= 2
       /\ r_calls[1] = 0
       /\ r_calls[Len(r_calls)] = rstats.extracted_files
       /\ Cardinality({i \in 2..Len(r_calls) : r_calls[i] = rstats.extracted_files}) = 1

\* C13: create_archive on a source path that does not exist ends in
\* validate_source with FileNotFoundError, on one that is not a directory
\* with ValueError; in both cases nothing was scanned, the stats are the
\* initial ones and no archive file was made.  On a directory validate_source
\* raises neither.
C13_ValidateSource ==
    b_caller = "create"
    => /\ src_kind = "missing"
          => /\ b_pc = "aborted"
             /\ b_exc = "FileNotFoundError"
       /\ src_kind = "file"
          => /\ b_pc = "aborted"
             /\ b_exc = "ValueError"
       /\ src_kind # "dir"
          => /\ stats = InitStats
             /\ file_sizes = <<>>
             /\ archive = NoArchive
             /\ open_handles = 0
             /\ b_calls = <<>>
       /\ src_kind = "dir" => b_exc \notin {"FileNotFoundError", "ValueError"}

C13_Witness ==
    /\ b_caller = "create"
    /\ src_kind = "file"
    /\ b_exc = "ValueError"
    /\ scans = 1

\* C14: the restore gets past validate_archive only when the archive can be
\* read and none of its entries is corrupt; a restore of an archive with a
\* corrupt entry (and no entry that needs another password) ends, unless
\* interrupted, with BadZipFile before the target directory is made and
\* before any entry is written.
HasCorruptEntry == \E i \in 1..Len(archive.entries) : EntryAt(i).corrupt

C14_CorruptArchiveRejected ==
    /\ r_pc \notin {"none", "validate", "aborted"}
       => /\ ContainerReadable(archive)
          /\ ~HasCorruptEntry
    /\ (/\ RestoreEnded
        /\ r_ki = "none"
        /\ HasCorruptEntry
        /\ ~HasProtectedEntry)
       => /\ r_exc = ErrBadZipFile
          /\ ~target_exists
          /\ DOMAIN target = {}

\* C15: whether or not the AES backend is installed, a restore that ends
\* (uninterrupted) on an archive file that is not a readable container ends
\* with BadZipFile, and one that ends on an intact archive with an entry
\* that needs another password ends with a RuntimeError.
C15_OpenErrorCause ==
    /\ (/\ RestoreEnded
        /\ r_ki = "none"
        /\ archive.exists
        /\ ~ContainerReadable(archive))
       => r_exc = ErrBadZipFile
    /\ (/\ RestoreEnded
        /\ r_ki = "none"
        /\ IntactArchive
        /\ HasProtectedEntry)
       => IsRuntimeError(r_exc)

\* C16: a BackupCreator given a password while the AES backend is missing is
\* constructed all the same, with the plain ZIP class, use_password False and
\* no 'encryption' among the keyword arguments, and the entries it writes are
\* not encrypted; in every case 'encryption' is among the keyword arguments
\* exactly when use_password is True, compresslevel is 9 and the compression
\* is deflate.
C16_Downgrade ==
    b_pc \notin {"unused", "exited"}
    => LET kwargs == create_archive_kwargs(use_password, has_pyzipper)
       IN  /\ (b_password # NoPassword /\ ~has_pyzipper)
              => /\ ~use_password
                 /\ ZipClass(b_password, has_pyzipper) = "std"
                 /\ "encryption" \notin DOMAIN kwargs
                 /\ \A i \in 1..Len(archive.entries) : EntryAt(i).enc = "none"
           /\ "encryption" \in DOMAIN kwargs <=> use_password
           /\ kwargs.compresslevel = 9
           /\ kwargs.compression = "ZIP_DEFLATED"

C16_Witness ==
    /\ b_pc = "done"
    /\ b_password = "k1"
    /\ ~has_pyzipper
    /\ ~use_password
    /\ Len(archive.entries) = 2

\* C17: check_disk_space of the backup returns only when the free space is
\* at least total_size * 0.5 * 1.1 truncated to an integer, and raises only
\* when it is less; when it has raised, the exception is an OSError, no
\* archive was opened and no file is at backup_path.
C17_Verdict ==
    b_pc = "space_cmp"
    => /\ b_pc' = "open" => free_space >= (stats.total_size * 11) \div 20
       /\ (b_pc' = "aborted" /\ b_ki' = "none")
          => /\ free_space < (stats.total_size * 11) \div 20
             /\ b_exc' = "OSError"

C17_Aborted ==
    (b_pc = "aborted" /\ free_space # NoFrame)
    => /\ free_space < (stats.total_size * 11) \div 20
       /\ b_exc = "OSError"
       /\ archive = NoArchive
       /\ open_handles = 0
       /\ b_calls = <<>>
       /\ b_log = <<>>

C17_BackupSpacePreflight == [](C17_Aborted) /\ [][C17_Verdict]_vars

C17_Witness ==
    /\ b_pc = "aborted"
    /\ b_exc = "OSError"
    /\ stats.total_size = 2
    /\ free_space = 0

\* C18: check_disk_space of the restore returns only when the free space is
\* at least twice the size of the archive file, and raises only when it is
\* less; when it has raised, the exception is an OSError, the target
\* directory was not made and no entry was written.
C18_Verdict ==
    r_pc = "space_cmp"
    => /\ r_pc' = "mkdir" => free_space >= 2 * ArchiveFileSize(archive)
       /\ (r_pc' = "aborted" /\ r_ki' = "none")
          => /\ free_space < 2 * ArchiveFileSize(archive)
             /\ r_exc' = "OSError"

C18_Aborted ==
    (r_pc = "aborted" /\ free_space # NoFrame)
    => /\ free_space < 2 * ArchiveFileSize(archive)
       /\ r_exc = "OSError"
       /\ ~target_exists
       /\ DOMAIN target = {}
       /\ rstats = InitRestoreStats

C18_RestoreSpacePreflight == [](C18_Aborted) /\ [][C18_Verdict]_vars

C18_Witness ==
    /\ r_pc = "aborted"
    /\ r_exc = "OSError"
    /\ Len(archive.entries) = 2
    /\ free_space = 2 * ArchiveFileSize(archive) - 1

\* C19: when create_archive has returned, stats.archive_size is the size of
\* the archive file on disk.
C19_ArchiveSizeIsFinal ==
    b_pc = "done" => stats.archive_size = ArchiveFileSize(archive)

\* C20: a KeyboardInterrupt in the extraction changes nothing in the target
\* directory; after it the exception raised is the KeyboardInterrupt, the
\* archive handle is closed, and every entry the loop had finished without a
\* failure, and whose file no later entry had begun to write again, is in
\* the target directory with the bytes extracted for it.
C20_InterruptStep ==
    (r_ki = "none" /\ r_ki' = "extract")
    => /\ target' = target
       /\ target_exists' = target_exists

C20_Interrupted ==
    (r_pc = "aborted" /\ r_ki = "extract")
    => /\ r_exc = "KeyboardInterrupt"
       /\ open_handles = 0
       /\ \A i \in 1..(r_i - 1) :
             (/\ ~IsDirEntry(InfoAt(i))
              /\ i \notin r_failed
              /\ \A j \in (i + 1)..Len(archive.entries) :
                     j <= r_i => EntryTarget(j) # EntryTarget(i))
             => /\ EntryTarget(i) \in DOMAIN target
                /\ target[EntryTarget(i)] = InfoAt(i).data

C20_InterruptedExtraction == [](C20_Interrupted) /\ [][C20_InterruptStep]_vars

C20_Witness ==
    /\ r_pc = "aborted"
    /\ r_ki = "extract"
    /\ r_i = 2
    /\ rstats.extracted_files = 1
    /\ Len(archive.entries) = 2
    /\ EntryTarget(1) \in DOMAIN target

\* C21: when a backup on which no I/O call failed has completed, the archive
\* holds exactly one entry per regular file under the source directory, named
\* by the file's path relative to the source root and holding the file's
\* bytes; processed_files and total_files both equal the number of those
\* files and skipped_files is 0.
C21_FaithfulArchive ==
    (b_pc = "done" /\ failed = {})
    => /\ Len(archive.entries) = Cardinality(DOMAIN src)
       /\ \A rel \in DOMAIN src :
              \E i \in 1..Len(archive.entries) :
                  /\ EntryAt(i).name = PathStr(rel)
                  /\ EntryAt(i).data = src[rel]
       /\ stats.processed_files = Cardinality(DOMAIN src)
       /\ stats.total_files = Cardinality(DOMAIN src)
       /\ stats.skipped_files = 0

\* C29: whenever no scan is running, after any number of calls of
\* calculate_total_size, total_files is the number of files in the cached
\* file-size map and total_size is the sum of the cached sizes.
C29_ScanConsistency ==
    b_pc # "scan"
    => /\ stats.total_files = Len(file_sizes)
       /\ stats.total_size = PlannedBytes

\* C26: in the state in which create_archive's abort path starts after a
\* KeyboardInterrupt raised in the write step, the number of entries written
\* to the archive is processed_files and processed_size is the sum of the
\* sizes of those entries.
C26_NoHalfCountedFile ==
    (b_pc = "aborted" /\ b_ki = "write")
    => /\ Cardinality({i \in 1..Len(b_log) : b_log[i].added}) = stats.processed_files
       /\ AddedBytes = stats.processed_size

\* C27: a KeyboardInterrupt raised in the write step of create_archive is
\* the exception create_archive raises, whether or not closing the archive or
\* deleting the partial file fails during the unwinding.
C27_InterruptSurvivesCleanup ==
    (b_ki = "write" /\ BackupEnded) => b_exc = "KeyboardInterrupt"

\* Where a path lands on the file system: a ".." component leaves the
\* directory the components before it name (no symbolic links).
RECURSIVE Resolve(_)
Resolve(p) ==
    IF Len(p) = 0 THEN <<>>
    ELSE LET head == Resolve(SubSeq(p, 1, Len(p) - 1))
             last == p[Len(p)]
         IN  IF last # ".." THEN Append(head, last)
             ELSE IF Len(head) = 0 THEN <<"..">>
             ELSE IF head[Len(head)] = "/" THEN head
             ELSE IF head[Len(head)] = ".." THEN Append(head, last)
             ELSE SubSeq(head, 1, Len(head) - 1)

\* C28: every file extract_archive creates or writes, whatever the names of
\* the archive's entries, lies inside target_dir.
C28_ExtractionConfined ==
    \A p \in DOMAIN target : IsPrefix(TargetDir, Resolve(p))

\* C30: in every state of a restore errors equals skipped_files and
\* extracted_size is at most total_size; when extract_archive has returned,
\* extracted_files + skipped_files + the number of directory entries is
\* total_files.
C30_RestoreStats ==
    /\ rstats.errors = rstats.skipped_files
    /\ rstats.extracted_size <= rstats.total_size
    /\ r_pc = "done"
       => rstats.extracted_files + rstats.skipped_files
          + Cardinality({i \in 1..Len(archive.entries) : IsDirEntry(EntryAt(i))})
          = rstats.total_files

\* C22: read_file_chunked returns, for every file content and every positive
\* chunk size, the bytes read_file_direct returns for the same file; and
\* _add_file_to_archive reads in chunks exactly the files whose size is
\* greater than 8 MiB, the others directly, getting the file's bytes either
\* way.
C22_ChunkedEqualsDirect ==
    /\ u_ret.fn = "read_file_chunked" => u_ret.value = read_file_direct(u_file)
    /\ u_ret.fn = "_add_file_to_archive"
       => /\ u_ret.method \in {"read_file_chunked", "read_file_direct"}
          /\ u_ret.method = "read_file_chunked" <=> u_ret.size > 8 * 1024 * 1024
          /\ u_ret.value = u_file

C22_Witness ==
    /\ u_ret.fn = "read_file_chunked"
    /\ u_chunk = 2
    /\ Len(u_file) = 3
    /\ u_file[1] # u_file[3]

C24_ExitCodes ==
    m_exit # NoExit
    => IF m_pc \in {"ret_succeeded", "ret_declined"} THEN m_exit = 0
       ELSE m_exit = 1

\* C25: restore_folder.main shows the password prompt at most 3 times; when
\* the prompting is over, a non-empty password was obtained or the program
\* has ended without extracting; the extraction of a protected archive
\* starts only with a password that passes verify_password; and when the
\* verification fails the program ends with status 1 at the "Incorrect
\* password" message, with no RestoreExtractor made and the target directory
\* as it was found.
C25_PasswordResolution ==
    m_prog = "restore"
    => /\ m_prompts <= 3
       /\ (m_prompts > 0 /\ m_pc # "r_prompt")
          => \/ m_password \in Keys
             \/ m_exit # NoExit /\ r_pc = "none"
       /\ (r_pc # "none" /\ is_password_protected(archive, has_pyzipper))
          => /\ r_password \in Keys
             /\ verify_password(archive, r_password, has_pyzipper)
       /\ m_pc = "r_extract" => r_pc = "none"
       /\ m_pc = "ret_incorrect_password"
          => /\ m_exit = 1
             /\ r_pc = "none"
             /\ target \in {<<>>, OldTarget}
             /\ target_exists = (target # <<>>)

C25_Witness ==
    /\ m_prog = "restore"
    /\ m_pc = "ret_incorrect_password"
    /\ m_prompts = 3
    /\ m_password = "k2"
    /\ \E i \in 1..Len(archive.entries) : EntryAt(i).key = "k1"

====
